---- MODULE Spec2Model ----
(***************************************************************************)
(* Model of packages/hydrogen/src/foundation/Script/loadScript.ts:         *)
(* the four module-level caches, the module-level ignoreProps array, the   *)
(* script elements created by loadScript, the document's head and body,    *)
(* and the queue of requestAnimationFrame callbacks.                       *)
(*                                                                         *)
(* JavaScript values are modelled as strings: Undefined is the value       *)
(* undefined (an absent prop), "true" / "false" are the booleans, "fn" is  *)
(* a caller-supplied callback.  A script element is identified by its      *)
(* index in scripts (the order of document.createElement calls); a         *)
(* promise is identified by the element whose events settle it.            *)
(***************************************************************************)
EXTENDS Integers, Sequences, FiniteSets, TLC

\* Bound of the model: the number of script elements loadScript may create.
MaxScripts == 2

VARIABLES
    pathname,        \* window.location.pathname
    StartTimeCache,  \* Map key -> performance.now() of the first attempt
    PrevPathCache,   \* Map key -> pathname of the last call
    LoadCache,       \* Set of keys loading / loaded
    ScriptCache,     \* Map key -> {promise, script}
    ignoreProps,     \* the module-level array of props not to spread
    scripts,         \* every element created by document.createElement
    document,        \* children of document.head and document.body
    rafQueue,        \* callbacks handed to requestAnimationFrame
    ret,             \* the value returned by the last loadScript call
    passedProps,     \* the props ScriptBeforeHydration is rendered with
    rendered         \* the <script> element ScriptBeforeHydration returned

vars == <<pathname, StartTimeCache, PrevPathCache, LoadCache, ScriptCache,
          ignoreProps, scripts, document, rafQueue, ret, passedProps,
          rendered>>

----------------------------------------------------------------------------
\* JavaScript values

Undefined == "undefined"

Truthy(v) == v \notin {Undefined, "", "false"}

\* x ?? ''
OrEmpty(v) == IF v = Undefined THEN "" ELSE v

\* destructuring default: `name = dflt`
Default(v, dflt) == IF v = Undefined THEN dflt ELSE v

Paths == {"/", "/p"}

Targets == {"head", "body"}

\* Map.set / Map.delete on a function with a finite domain
MapSet(m, k, v) == [x \in DOMAIN m \cup {k} |-> IF x = k THEN v ELSE m[x]]

MapDelete(m, k) == [x \in DOMAIN m \ {k} |-> m[x]]

MapHas(m, k) == k \in DOMAIN m

EmptyMap == [x \in {} |-> Undefined]

----------------------------------------------------------------------------
\* Props of a call (ScriptProps)

PropNames ==
    {"children", "dangerouslySetInnerHTML", "onError", "onLoad", "onReady",
     "load", "target", "reload",
     "id", "src", "async", "defer", "type", "className", "crossOrigin"}

NoProps == [k \in PropNames |-> Undefined]

\* object literal: the props of `given`, every other prop undefined
Props(given) ==
    [k \in PropNames |-> IF k \in DOMAIN given THEN given[k] ELSE Undefined]

\* the props the calls of the model are drawn from, before reload and target:
\* an inline script without id (empty key), an inline script whose id is the
\* concatenation of the next one's id and src, a script with id and src, and
\* a script with a src only, for the worker
InlineProps ==
    { Props([children |-> "x=1", async |-> "true"]),
      Props([id |-> "ab", dangerouslySetInnerHTML |-> " y=2 ",
             async |-> "true", defer |-> "true", onLoad |-> "fn"]) }

ExternalProps ==
    { Props([id |-> "a", src |-> "b", async |-> "true", defer |-> "true",
             className |-> "c", onLoad |-> "fn", onReady |-> "fn",
             onError |-> "fn"]) }

WorkerProps ==
    { Props([src |-> "b", load |-> "inWorker", type |-> "module",
             crossOrigin |-> "anonymous"]) }

Descriptors ==
    { [b EXCEPT !.reload = r] :
        b \in InlineProps \cup WorkerProps, r \in {Undefined, "true"} }
    \cup
    { [b EXCEPT !.reload = r, !.target = t] :
        b \in ExternalProps, r \in {Undefined, "true"}, t \in {Undefined, "head"} }

----------------------------------------------------------------------------
\* const ignoreProps = [...]
InitialIgnoreProps ==
    <<"children", "dangerouslySetInnerHTML", "onError", "onLoad", "onReady",
      "load", "target", "reload">>

\* Array.prototype.includes
Includes(arr, k) == \E i \in DOMAIN arr : arr[i] = k

\* const DOMAttributeNames
DOMAttributeNames ==
    [acceptCharset |-> "accept-charset", className |-> "class",
     htmlFor |-> "for", httpEquiv |-> "http-equiv", noModule |-> "noModule"]

\* String.prototype.toLowerCase on the prop names of the model
ToLowerCase(k) ==
    CASE k = "crossOrigin" -> "crossorigin"
      [] k = "className" -> "classname"
      [] k = "dangerouslySetInnerHTML" -> "dangerouslysetinnerhtml"
      [] k = "onError" -> "onerror"
      [] k = "onLoad" -> "onload"
      [] k = "onReady" -> "onready"
      [] OTHER -> k

\* DOMAttributeNames[k] || k.toLowerCase()
AttrName(k) ==
    IF k \in DOMAIN DOMAttributeNames THEN DOMAttributeNames[k]
    ELSE ToLowerCase(k)

\* Element.setAttribute
SetAttribute(attrs, a, v) == MapSet(attrs, a, v)

----------------------------------------------------------------------------
\* Pure parts of loadScript

\* const key = (id ?? '') + (src ?? '')
Key(id, src) == OrEmpty(id) \o OrEmpty(src)

\* Map.get
MapGet(m, k) == IF MapHas(m, k) THEN m[k] ELSE Undefined

\* a path taken as changed whenever an earlier call recorded one
PathChanged_Always(prevPathname, path) == Truthy(prevPathname)

\* const pathChanged = prevPathname ? pathname !== prevPathname : false
PathChanged(prevPathname, path) ==
    IF Truthy(prevPathname) THEN path # prevPathname ELSE FALSE

\* a reload on the flag alone, or on the path alone
ReloadOnNavigation_Either(pathChanged, reload) == pathChanged \/ Truthy(reload)

\* const reloadOnNavigation = pathChanged && reload
ReloadOnNavigation(pathChanged, reload) == pathChanged /\ Truthy(reload)

\* const hasLoaded = key && LoadCache.has(key)
HasLoaded(key, loadCache) == key # "" /\ key \in loadCache

\* if (ScriptCache.has(key)) { if (scriptCache?.script) {...purge...} }
Tracked(scriptCache, key) ==
    MapHas(scriptCache, key) /\ scriptCache[key].script # 0

\* performance.now(): a clock that has advanced by the next element creation
Now == Len(scripts)

\* a call that never extends ignoreProps
PushIgnored_Never(ip, src) == ip

\* if (!src) { ignoreProps.push('async', 'defer') }
PushIgnored(ip, src) ==
    IF ~Truthy(src) THEN ip \o <<"async", "defer">> ELSE ip

\* which of innerHTML / textContent the call fills in
ScriptContent(props) ==
    IF Truthy(props.dangerouslySetInnerHTML) THEN "innerHTML"
    ELSE IF Truthy(Default(props.children, "")) THEN "textContent"
    ELSE "empty"

\* the props the for-loop does not skip
Spread(props, ip) ==
    { k \in PropNames : ~(props[k] = Undefined \/ Includes(ip, k)) }

\* for (const [k, value] of Object.entries(props)) script.setAttribute(attr, value)
SpreadAttributes(props, ip) ==
    [a \in {AttrName(k) : k \in Spread(props, ip)} |->
        props[CHOOSE k \in Spread(props, ip) : AttrName(k) = a]]

\* a worker type that gives way to the type the caller passed
WorkerType_KeepsCallerType(attrs, load) ==
    IF load = "inWorker" /\ ~MapHas(attrs, "type")
    THEN SetAttribute(attrs, "type", "text/partytown")
    ELSE attrs

\* if (load === 'inWorker') script.setAttribute('type', 'text/partytown')
WorkerType(attrs, load) ==
    IF load = "inWorker" THEN SetAttribute(attrs, "type", "text/partytown")
    ELSE attrs

\* script.setAttribute('data-load', src ? load : 'inline')
DataLoad(attrs, src, load) ==
    IF Truthy(src) THEN SetAttribute(attrs, "data-load", load)
    ELSE SetAttribute(attrs, "data-load", "inline")

\* the attributes of the element a call creates
ElementAttributes(props, ip) ==
    DataLoad(WorkerType(SpreadAttributes(props, ip),
                        Default(props.load, "afterHydration")),
             props.src, Default(props.load, "afterHydration"))

\* the value of a promise that has not settled
NoValue == [status |-> "none", event |-> "none"]

\* document.createElement('script') with the handlers and content of the call
NewScript(props, ip, reloaded) ==
    [ key      |-> Key(props.id, props.src),
      src      |-> props.src,
      attrs    |-> ElementAttributes(props, ip),
      content  |-> ScriptContent(props),
      onLoad   |-> props.onLoad,
      onReady  |-> props.onReady,
      onError  |-> props.onError,
      promise  |-> "pending",
      value    |-> NoValue,
      calls    |-> <<>>,
      inserted |-> FALSE,
      reloaded |-> reloaded ]

\* function appendScript(target, script) { let appended = false; ... }
appendScript(target, script) ==
    [op |-> "append", target |-> target, script |-> script, flag |-> FALSE]

\* function removeScript(target, script) { let removed = false; ... }
removeScript(target, script) ==
    [op |-> "remove", target |-> target, script |-> script, flag |-> FALSE]

\* values loadScript returns
Resolved(status, event) ==
    [kind |-> "resolved", status |-> status, event |-> event, promise |-> 0]

PromiseOf(script) ==
    [kind |-> "promise", status |-> "pending", event |-> "none",
     promise |-> script]

NoReturn == [kind |-> "none", status |-> "none", event |-> "none", promise |-> 0]

----------------------------------------------------------------------------
\* export function ScriptBeforeHydration(passedProps): the component that
\* renders a <script> element on the server, before hydration

BeforeHydrationNames ==
    {"id", "src", "children", "dangerouslySetInnerHTML", "async", "defer",
     "data-load", "load", "onReady", "target"}

\* the props of the rendered <script> element
ElementNames == BeforeHydrationNames \cup {"key", "suppressHydrationWarning"}

\* values that are not strings: a URL object given as src, an array of two
\* strings and a React element given as children
UrlObject == "new URL('/s.js')"

ChildArray == "['x=', '1']"

ChildElement == "<b/>"

IsString(v) == v \notin {Undefined, UrlObject, ChildArray, ChildElement}

\* a script longer than the 24 characters that go into the React key
LongJs == "window.dataLayer=window.dataLayer||[];"

\* a raw-HTML payload with surrounding white space
PaddedHtml == " y=2 "

\* String.prototype.trim on the payloads of the model
Trim(s) == IF s = PaddedHtml THEN "y=2" ELSE s

\* Array.prototype.join('') on the arrays of the model
Join(a) == IF a = ChildArray THEN "x=1" ELSE ""

\* js.slice(0, 24) on the scripts of the model
Slice(js) == IF Len(js) <= 24 THEN js ELSE "window.dataLayer=window."

\* the props the component is rendered with; dangerouslySetInnerHTML holds
\* the __html of the object, Undefined when there is no object
BeforeHydrationProps ==
    { r @@ ("data-load" :> d) :
        r \in [id : {Undefined, "a"},
               src : {Undefined, "", "/s.js", UrlObject},
               children : {Undefined, "", "x=1", LongJs, ChildArray,
                           ChildElement},
               dangerouslySetInnerHTML : {Undefined, "", PaddedHtml},
               async : {Undefined, "true", "false"},
               defer : {Undefined, "true"},
               load : {Undefined, "beforeHydration"},
               onReady : {Undefined, "fn"},
               target : {Undefined, "head"}],
        d \in {Undefined, "onIdle"} }

\* const ignoreProps = ['load', 'onReady', 'target'] of the component's file
ignorePropsBeforeHydration == <<"load", "onReady", "target">>

\* Object.keys(passedProps).reduce(...): a copy without the ignored props
AllowedProps(passed) ==
    [k \in DOMAIN passed |->
        IF Includes(ignorePropsBeforeHydration, k) THEN Undefined
        ELSE passed[k]]

\* typeof srcProp === 'string' ? srcProp : undefined
SrcOf(srcProp) == IF IsString(srcProp) THEN srcProp ELSE Undefined

IsInlineScript(src, props) ==
    /\ ~Truthy(src)
    /\ \/ props["children"] # Undefined
       \/ Truthy(props["dangerouslySetInnerHTML"])

\* the script of an inline element, from children or else from the payload
InlineJs(props) ==
    LET children == props["children"]
        html == props["dangerouslySetInnerHTML"]
    IN IF Truthy(children)
       THEN IF IsString(children) THEN children
            ELSE IF children = ChildArray THEN Join(children)
            ELSE ""
       ELSE IF html # Undefined THEN Trim(html)
       ELSE ""

\* the props left for the spread of the inline element: src deleted, and
\* children or else the payload, whichever gave the script
InlineRest(props) ==
    [k \in DOMAIN props |->
        IF k = "src" THEN Undefined
        ELSE IF k = "children" /\ Truthy(props["children"]) THEN Undefined
        ELSE IF k = "dangerouslySetInnerHTML" /\ ~Truthy(props["children"])
             THEN Undefined
        ELSE props[k]]

\* JSX: a later attribute replaces an earlier one of the same name; a spread
\* object contributes the props it has
Attribute(el, k, v) == [x \in ElementNames |-> IF x = k THEN v ELSE el[x]]

SpreadProps(el, props) ==
    [x \in ElementNames |->
        IF x \in DOMAIN props /\ props[x] # Undefined THEN props[x]
        ELSE el[x]]

NoAttributes == [x \in ElementNames |-> Undefined]

\* the inline <script>: id, key, {...props}, suppressHydrationWarning,
\* dangerouslySetInnerHTML, data-load
InlineElement(id, props) ==
    LET js == InlineJs(props)
        e1 == Attribute(NoAttributes, "id", id)
        e2 == Attribute(e1, "key", id \o Slice(js))
        e3 == SpreadProps(e2, InlineRest(props))
        e4 == Attribute(e3, "suppressHydrationWarning", "true")
        e5 == Attribute(e4, "dangerouslySetInnerHTML", js)
    IN Attribute(e5, "data-load", "beforeHydration")

\* a <script> with a src whose spread comes after the fixed attributes
SrcElement_SpreadLast(id, src, props) ==
    LET e1 == Attribute(NoAttributes, "key", OrEmpty(id) \o OrEmpty(src))
        e2 == Attribute(e1, "id", id)
        e3 == Attribute(e2, "src", src)
        e4 == Attribute(e3, "async", "false")
        e5 == Attribute(e4, "defer", "false")
        e6 == Attribute(e5, "data-load", "beforeHydration")
    IN SpreadProps(e6, props)

\* the <script> with a src: {...props}, key, id, src, async, defer, data-load
SrcElement(id, src, props) ==
    LET e1 == SpreadProps(NoAttributes, props)
        e2 == Attribute(e1, "key", OrEmpty(id) \o OrEmpty(src))
        e3 == Attribute(e2, "id", id)
        e4 == Attribute(e3, "src", src)
        e5 == Attribute(e4, "async", "false")
        e6 == Attribute(e5, "defer", "false")
    IN Attribute(e6, "data-load", "beforeHydration")

ScriptBeforeHydration(passed) ==
    LET id == passed["id"]
        src == SrcOf(passed["src"])
        props == AllowedProps(passed)
    IN IF IsInlineScript(src, props)
       THEN InlineElement(id, props)
       ELSE SrcElement(id, src, props)

\* no component has been rendered
NoPassedProps == [k \in BeforeHydrationNames |-> Undefined]

NotRendered == EmptyMap

----------------------------------------------------------------------------
\* State after the module is evaluated on a fresh page

FreshPage ==
    /\ pathname = "/"
    /\ StartTimeCache = EmptyMap
    /\ PrevPathCache = EmptyMap
    /\ LoadCache = {}
    /\ ScriptCache = EmptyMap
    /\ ignoreProps = InitialIgnoreProps
    /\ scripts = <<>>
    /\ document = [t \in Targets |-> <<>>]
    /\ rafQueue = <<>>
    /\ ret = NoReturn

Init ==
    /\ FreshPage
    /\ passedProps = NoPassedProps
    /\ rendered = NotRendered

----------------------------------------------------------------------------
\* export async function loadScript(props)

\* a cache entry for every script, inline ones too
Cached_Always(scriptCache, key, src, script) ==
    MapSet(scriptCache, key, [promise |-> script, script |-> script])

\* a cache entry that holds the script without its promise
Cached_NoPromise(scriptCache, key, src, script) ==
    IF Truthy(src)
    THEN MapSet(scriptCache, key, [promise |-> 0, script |-> script])
    ELSE scriptCache

\* if (src && loadPromise) { ScriptCache.set(key, {promise: loadPromise, script}) }
Cached(scriptCache, key, src, script) ==
    IF Truthy(src)
    THEN MapSet(scriptCache, key, [promise |-> script, script |-> script])
    ELSE scriptCache

\* return loadPromise, or Promise.resolve({status: true, event: 'inline script'})
Returned(src, script) ==
    IF Truthy(src) THEN PromiseOf(script)
    ELSE Resolved("true", "inline script")

\* the registries and the frame queue, as one value
Caches ==
    [LoadCache |-> LoadCache, ScriptCache |-> ScriptCache,
     StartTimeCache |-> StartTimeCache, PrevPathCache |-> PrevPathCache,
     rafQueue |-> rafQueue]

\* a purge that empties the cache entry of the script instead of deleting it
Purge_DropsPromise(key, target, c) ==
    IF Tracked(c.ScriptCache, key)
    THEN [c EXCEPT
            !.LoadCache = @ \ {key},
            !.ScriptCache = MapSet(@, key, [promise |-> 0, script |-> 0]),
            !.StartTimeCache = MapDelete(@, key),
            !.rafQueue = Append(@, removeScript(target, c.ScriptCache[key].script))]
    ELSE c

\* a purge that leaves the start time of the removed script behind
Purge_KeepsStartTime(key, target, c) ==
    IF Tracked(c.ScriptCache, key)
    THEN [c EXCEPT
            !.LoadCache = @ \ {key},
            !.ScriptCache = MapDelete(@, key),
            !.rafQueue = Append(@, removeScript(target, c.ScriptCache[key].script))]
    ELSE c

\* lines 82-91: the script is removed from the caches and, on the next
\* frame, from the target of this call
Purge(key, target, c) ==
    IF Tracked(c.ScriptCache, key)
    THEN [c EXCEPT
            !.LoadCache = @ \ {key},
            !.ScriptCache = MapDelete(@, key),
            !.StartTimeCache = MapDelete(@, key),
            !.rafQueue = Append(@, removeScript(target, c.ScriptCache[key].script))]
    ELSE c

\* one last path for all the keys recorded so far
TrackPath_AllKeys(prevPathCache, key, path) ==
    [x \in DOMAIN prevPathCache \cup {key} |-> path]

\* PrevPathCache.set(key, pathname)
TrackPath(prevPathCache, key, path) == MapSet(prevPathCache, key, path)

\* a call that records the path only when it reloads
AfterReload_TrackOnReload(key, target, path, reloading, c) ==
    IF reloading
    THEN Purge(key, target, [c EXCEPT !.PrevPathCache = TrackPath(@, key, path)])
    ELSE c

\* line 72, then lines 75-92 when the call does not return at line 77
AfterReload(key, target, path, reloading, c) ==
    LET c1 == [c EXCEPT !.PrevPathCache = TrackPath(@, key, path)]
    IN IF reloading THEN Purge(key, target, c1) ELSE c1

loadScript(props) ==
    LET src == props.src
        target == Default(props.target, "body")
        reload == Default(props.reload, "false")
        key == Key(props.id, src)
        prevPathname == MapGet(PrevPathCache, key)
        pathChanged == PathChanged(prevPathname, pathname)
        reloadOnNavigation == ReloadOnNavigation(pathChanged, reload)
        hasLoaded == HasLoaded(key, LoadCache)
        c == AfterReload(key, target, pathname,
                         hasLoaded /\ reloadOnNavigation, Caches)
        \* lines 94-96
        StartTimeCache2 ==
            IF ~MapHas(c.StartTimeCache, key)
            THEN MapSet(c.StartTimeCache, key, Now)
            ELSE c.StartTimeCache
        \* lines 119-202
        ignoreProps1 == PushIgnored(ignoreProps, src)
        script == Len(scripts) + 1
    IN
    /\ PrevPathCache' = c.PrevPathCache
    /\ UNCHANGED <<pathname, document, passedProps, rendered>>
    /\ IF hasLoaded /\ ~reloadOnNavigation
       THEN \* lines 75-78
            /\ ret' = Resolved("true", "already loaded")
            /\ UNCHANGED <<StartTimeCache, LoadCache, ScriptCache, ignoreProps,
                           scripts, rafQueue>>
       ELSE IF MapHas(c.ScriptCache, key)
       THEN \* lines 99-113
            /\ StartTimeCache' = StartTimeCache2
            /\ LoadCache' = c.LoadCache \cup {key}
            /\ ScriptCache' = c.ScriptCache
            /\ rafQueue' = c.rafQueue
            /\ ret' = IF c.ScriptCache[key].promise # 0
                      THEN PromiseOf(c.ScriptCache[key].promise)
                      ELSE Resolved("false", "Script load promise not found")
            /\ UNCHANGED <<ignoreProps, scripts>>
       ELSE \* lines 116-209
            /\ Len(scripts) < MaxScripts
            /\ StartTimeCache' = StartTimeCache2
            /\ LoadCache' = c.LoadCache \cup {key}
            /\ ignoreProps' = ignoreProps1
            /\ scripts' = Append(scripts,
                    NewScript(props, ignoreProps1, hasLoaded /\ reloadOnNavigation))
            /\ rafQueue' = Append(c.rafQueue, appendScript(target, script))
            /\ ScriptCache' = Cached(c.ScriptCache, key, src, script)
            /\ ret' = Returned(src, script)

----------------------------------------------------------------------------
\* The document and the rendering frame

IsChild(doc, target, script) == \E i \in DOMAIN doc[target] : doc[target][i] = script

Without(seq, script) == SelectSeq(seq, LAMBDA x : x # script)

\* an append that always goes to the head
appendChild_Head(doc, target, script) ==
    [t \in Targets |->
        IF t = "head" THEN Append(Without(doc[t], script), script)
        ELSE Without(doc[t], script)]

\* Node.appendChild: the node leaves its parent and becomes the last child
appendChild(doc, target, script) ==
    [t \in Targets |->
        IF t = target THEN Append(Without(doc[t], script), script)
        ELSE Without(doc[t], script)]

\* Node.removeChild: throws NotFoundError, changing nothing, on a non-child
removeChild(doc, target, script) ==
    IF IsChild(doc, target, script)
    THEN [doc EXCEPT ![target] = Without(doc[target], script)]
    ELSE doc

\* the function appendScript / removeScript returned, called by the frame
RunCallback(cb, doc) ==
    IF cb.flag THEN doc
    ELSE IF cb.op = "append" THEN appendChild(doc, cb.target, cb.script)
    ELSE removeChild(doc, cb.target, cb.script)

RECURSIVE RunCallbacks(_, _)
\* the frame calls the callbacks in the order they were requested
RunCallbacks(queue, doc) ==
    IF queue = <<>> THEN doc
    ELSE RunCallbacks(Tail(queue), RunCallback(Head(queue), doc))

Appended(queue) ==
    { queue[i].script : i \in { j \in DOMAIN queue : queue[j].op = "append" } }

\* a rendering frame: every requested callback runs
Frame ==
    /\ rafQueue # <<>>
    /\ document' = RunCallbacks(rafQueue, document)
    /\ scripts' = [i \in DOMAIN scripts |->
                     IF i \in Appended(rafQueue)
                     THEN [scripts[i] EXCEPT !.inserted = TRUE]
                     ELSE scripts[i]]
    /\ rafQueue' = <<>>
    /\ UNCHANGED <<pathname, StartTimeCache, PrevPathCache, LoadCache,
                   ScriptCache, ignoreProps, ret, passedProps, rendered>>

----------------------------------------------------------------------------
\* Events of a script element

\* a caller-supplied callback leaves its name in the element's log of calls,
\* where resolve and reject of the promise executor are logged as well
Call(name, f) == IF Truthy(f) THEN <<name>> ELSE <<>>

\* a load handler that resolves and runs onReady before onLoad
OnLoad_ReadyFirst(el) ==
    [el EXCEPT
        !.calls = el.calls \o <<"resolve">> \o Call("onReady", el.onReady)
                           \o Call("onLoad", el.onLoad),
        !.promise = "fulfilled",
        !.value = [status |-> "true", event |-> "load"]]

\* script.onload: onLoad, then onReady, then resolve
OnLoad(el) ==
    [el EXCEPT
        !.calls = el.calls \o Call("onLoad", el.onLoad)
                           \o Call("onReady", el.onReady) \o <<"resolve">>,
        !.promise = "fulfilled",
        !.value = [status |-> "true", event |-> "load"]]

\* an error handler that rejects without calling onError
OnError_Silent(el) ==
    [el EXCEPT
        !.calls = el.calls \o <<"reject">>,
        !.promise = "rejected",
        !.value = [status |-> "false", event |-> "error"]]

\* script.onerror: reject, then the catch handler: onError, Promise.reject
OnError(el) ==
    [el EXCEPT
        !.calls = el.calls \o <<"reject">> \o Call("onError", el.onError),
        !.promise = "rejected",
        !.value = [status |-> "false", event |-> "error"]]

\* the browser fires load or error once, on an element with a src that was
\* inserted into the document
CanFire(i) ==
    /\ Truthy(scripts[i].src)
    /\ scripts[i].inserted
    /\ scripts[i].promise = "pending"

LoadEvent(i) ==
    /\ CanFire(i)
    /\ scripts' = [scripts EXCEPT ![i] = OnLoad(scripts[i])]
    /\ UNCHANGED <<pathname, StartTimeCache, PrevPathCache, LoadCache,
                   ScriptCache, ignoreProps, document, rafQueue, ret,
                   passedProps, rendered>>

ErrorEvent(i) ==
    /\ CanFire(i)
    /\ scripts' = [scripts EXCEPT ![i] = OnError(scripts[i])]
    /\ UNCHANGED <<pathname, StartTimeCache, PrevPathCache, LoadCache,
                   ScriptCache, ignoreProps, document, rafQueue, ret,
                   passedProps, rendered>>

\* client-side navigation changes window.location.pathname
Navigate(path) ==
    /\ path # pathname
    /\ pathname' = path
    /\ UNCHANGED <<StartTimeCache, PrevPathCache, LoadCache, ScriptCache,
                   ignoreProps, scripts, document, rafQueue, ret,
                   passedProps, rendered>>

----------------------------------------------------------------------------
Next ==
    \/ \E props \in Descriptors : loadScript(props)
    \/ Frame
    \/ \E i \in DOMAIN scripts : LoadEvent(i)
    \/ \E i \in DOMAIN scripts : ErrorEvent(i)
    \/ \E path \in Paths : Navigate(path)

Spec == Init /\ [][Next]_vars

\* the browser runs a requested frame
FairSpec == Spec /\ WF_vars(Frame)

----------------------------------------------------------------------------
\* Rendering of ScriptBeforeHydration: the component is a function of its
\* props, so the props are drawn in the initial state and one step renders

InitBeforeHydration ==
    /\ FreshPage
    /\ passedProps \in BeforeHydrationProps
    /\ rendered = NotRendered

Render ==
    /\ rendered = NotRendered
    /\ rendered' = ScriptBeforeHydration(passedProps)
    /\ UNCHANGED <<passedProps, pathname, StartTimeCache, PrevPathCache,
                   LoadCache, ScriptCache, ignoreProps, scripts, document,
                   rafQueue, ret>>

NextBeforeHydration == Render

SpecBeforeHydration == InitBeforeHydration /\ [][NextBeforeHydration]_vars

----------------------------------------------------------------------------
\* Types

TypeOK ==
    /\ pathname \in Paths
    /\ LoadCache \subseteq {Key(p.id, p.src) : p \in Descriptors}
    /\ Len(scripts) <= MaxScripts
    /\ \A t \in Targets : \A i \in DOMAIN document[t] : document[t][i] \in DOMAIN scripts

----------------------------------------------------------------------------
\* Vocabulary of the properties

Keys == {Key(p.id, p.src) : p \in Descriptors}

KeyOf(p) == Key(p.id, p.src)

Attached(i) == \E t \in Targets : IsChild(document, t, i)

AttachedOf(key) == {i \in DOMAIN scripts : scripts[i].key = key /\ Attached(i)}

\* the call finds its key in LoadCache: an earlier call had the same key
Repeated(p) == KeyOf(p) \in LoadCache

\* the path differs from the one the last call with this key recorded
PathDiffers(p) ==
    MapHas(PrevPathCache, KeyOf(p)) /\ PrevPathCache[KeyOf(p)] # pathname

\* reload is not needed: no reload flag, or the path is unchanged
NoReloadNeeded(p) == p.reload # "true" \/ ~PathDiffers(p)

\* a repeated call that has to reload
ReloadTriggered(p) == Repeated(p) /\ p.reload = "true" /\ PathDiffers(p)

\* the step creates an element
Creates == Len(scripts') = Len(scripts) + 1

\* no element of the key was created by a reloading call
NeverReloaded(key) ==
    \A i \in DOMAIN scripts : scripts[i].key = key => ~scripts[i].reloaded

\* a later element of the same key was created by a reloading call
Superseded(i) ==
    \E j \in DOMAIN scripts :
        j > i /\ scripts[j].key = scripts[i].key /\ scripts[j].reloaded

AlreadyLoaded == Resolved("true", "already loaded")

----------------------------------------------------------------------------
\* C1 as stated: every call that repeats a key, reload not being needed,
\* returns "already loaded" and creates no element, whatever the id and
\* src, both absent included; with the frames run, one element of the key
\* is attached.
C1_Original ==
    [][\A p \in Descriptors :
          (loadScript(p) /\ Repeated(p) /\ NoReloadNeeded(p))
              => (ret' = AlreadyLoaded /\ scripts' = scripts)]_vars

\* C1, amended: for a descriptor with a non-empty key (an id or a src), a
\* call that repeats the key with reload not needed returns
\* {status: true, event: "already loaded"}, creates no element and requests
\* no frame; a key that no call has reloaded has exactly one element
\* attached once the frames have run, whether that element's load is
\* pending, has succeeded or has failed.
C1_AlreadyLoaded ==
    /\ [][\A p \in Descriptors :
            (loadScript(p) /\ KeyOf(p) # "" /\ Repeated(p) /\ NoReloadNeeded(p))
                => /\ ret' = AlreadyLoaded
                   /\ scripts' = scripts
                   /\ rafQueue' = rafQueue]_vars
    /\ [](\A key \in LoadCache \ {""} :
            (rafQueue = <<>> /\ NeverReloaded(key))
                => Cardinality(AttachedOf(key)) = 1)

C1_Witness ==
    /\ ret = AlreadyLoaded
    /\ rafQueue = <<>>
    /\ \E i \in DOMAIN scripts :
          /\ scripts[i].promise = "rejected"
          /\ NeverReloaded(scripts[i].key)
          /\ AttachedOf(scripts[i].key) = {i}
          /\ PrevPathCache[scripts[i].key] = pathname

----------------------------------------------------------------------------
\* C2 as stated, for the keys that have an id or a src: in every reachable
\* state at most one script element per ScriptKey is attached to the
\* document.
C2_AtMostOneAttached ==
    \A key \in Keys \ {""} : Cardinality(AttachedOf(key)) <= 1

----------------------------------------------------------------------------
\* C3 as stated: a call that repeats the key of a script with a src whose
\* result is still pending, reload not being needed, returns the pending
\* result of the first call and creates no second element.
C3_SamePendingResult ==
    [][\A p \in Descriptors :
          ( /\ loadScript(p)
            /\ Truthy(p.src)
            /\ MapHas(ScriptCache, KeyOf(p))
            /\ scripts[ScriptCache[KeyOf(p)].script].promise = "pending"
            /\ NoReloadNeeded(p) )
              => /\ ret' = PromiseOf(ScriptCache[KeyOf(p)].promise)
                 /\ scripts' = scripts]_vars

----------------------------------------------------------------------------
\* C4 as stated, in the form a finite run refutes: once the frames
\* requested so far have run, an element that a reloading call superseded
\* is detached and the element that call created is attached.
C4_ReloadReplaces ==
    rafQueue = <<>> =>
        \A i \in DOMAIN scripts :
            /\ Superseded(i) => ~Attached(i)
            /\ scripts[i].reloaded => Attached(i)

----------------------------------------------------------------------------
\* the state of a key, as the result of its last load shows it
Status(key, loadCache, scriptCache, els) ==
    IF key \notin loadCache THEN "unloaded"
    ELSE IF ~MapHas(scriptCache, key) THEN "done"
    ELSE CASE els[scriptCache[key].script].promise = "pending" -> "loading"
           [] els[scriptCache[key].script].promise = "fulfilled" -> "done"
           [] els[scriptCache[key].script].promise = "rejected" -> "error"

StatusNow(key) == Status(key, LoadCache, ScriptCache, scripts)

StatusNext(key) == Status(key, LoadCache', ScriptCache', scripts')

\* a call for the key with the reload flag set and a path that differs from
\* the path recorded for the key
ReloadCall(key) ==
    \E p \in Descriptors : loadScript(p) /\ KeyOf(p) = key /\ ReloadTriggered(p)

FirstCall(key) ==
    \E p \in Descriptors : loadScript(p) /\ KeyOf(p) = key /\ ~Repeated(p)

EventOf(key) ==
    \E i \in DOMAIN scripts :
        scripts[i].key = key /\ (LoadEvent(i) \/ ErrorEvent(i))

\* C5: per key the state goes unloaded -> loading -> done | error; a
\* key that is in LoadRegistry stays there, and its tracked element and its
\* state done | error change only in a call with the reload flag set and a
\* path that differs from the one recorded for the key; a loading key
\* changes state only by the load or error event of its element or by such
\* a call, so it stays loading while no event fires.
C5_Lifecycle ==
    [][\A key \in Keys \ {""} :
          /\ (key \in LoadCache /\ key \notin LoadCache') => ReloadCall(key)
          /\ (MapHas(ScriptCache, key) /\
                (~MapHas(ScriptCache', key) \/ ScriptCache'[key] # ScriptCache[key]))
                => ReloadCall(key)
          /\ StatusNow(key) # StatusNext(key) =>
                CASE StatusNow(key) = "unloaded" ->
                        FirstCall(key) /\ StatusNext(key) \in {"loading", "done"}
                  [] StatusNow(key) = "loading" ->
                        \/ EventOf(key) /\ StatusNext(key) \in {"done", "error"}
                        \/ ReloadCall(key)
                  [] OTHER -> ReloadCall(key)]_vars

C5_Witness ==
    \E i \in DOMAIN scripts :
        /\ scripts[i].reloaded
        /\ Truthy(scripts[i].src)
        /\ scripts[i].promise = "rejected"
        /\ \E j \in DOMAIN scripts :
              j < i /\ scripts[j].key = scripts[i].key /\ scripts[j].promise = "fulfilled"

----------------------------------------------------------------------------
\* the registries as lines 72-92 leave them in a reloading call of p, before
\* the element is re-created
Reloaded(p) ==
    AfterReload(KeyOf(p), Default(p.target, "body"), pathname, TRUE, Caches)

InNoRegistry(key, c) ==
    /\ key \notin c.LoadCache
    /\ ~MapHas(c.ScriptCache, key)
    /\ ~MapHas(c.StartTimeCache, key)
    /\ ~MapHas(c.PrevPathCache, key)

\* C6 as stated: when a reload is triggered (key already loaded, reload
\* flag set, path changed) the key is purged from all four registries before
\* the element is re-created.
C6_Original ==
    [][\A p \in Descriptors :
          (loadScript(p) /\ ReloadTriggered(p))
              => InNoRegistry(KeyOf(p), Reloaded(p))]_vars

\* C6, amended: when a reload is triggered for a key whose element
\* InstanceRegistry tracks, the key is purged from LoadRegistry,
\* InstanceRegistry and TimingRegistry together before the element is
\* re-created, and after the call the three hold the entry of the new
\* load; PathRegistry is not purged, it keeps the key with the current
\* path; for a key without a tracked element (an inline script) no registry
\* is purged.
C6_PurgedOnReload ==
    [][\A p \in Descriptors :
          (loadScript(p) /\ KeyOf(p) # "" /\ ReloadTriggered(p)) =>
            LET key == KeyOf(p)
                c == Reloaded(p)
            IN /\ MapHas(c.PrevPathCache, key) /\ c.PrevPathCache[key] = pathname
               /\ IF MapHas(ScriptCache, key)
                  THEN /\ key \notin c.LoadCache
                       /\ ~MapHas(c.ScriptCache, key)
                       /\ ~MapHas(c.StartTimeCache, key)
                       /\ StartTimeCache'[key] = Now
                  ELSE /\ c.LoadCache = LoadCache
                       /\ c.ScriptCache = ScriptCache
                       /\ c.StartTimeCache = StartTimeCache
                       /\ StartTimeCache'[key] = StartTimeCache[key]
               /\ Creates
               /\ key \in LoadCache'
               /\ PrevPathCache'[key] = pathname
               /\ MapHas(ScriptCache', key) => ScriptCache'[key].script = Len(scripts')]_vars

C6_Witness ==
    \E key \in DOMAIN ScriptCache :
        LET i == ScriptCache[key].script
        IN /\ scripts[i].reloaded
           /\ i > 1
           /\ scripts[i - 1].key = key
           /\ Truthy(scripts[i - 1].src)
           /\ StartTimeCache[key] = i - 1
           /\ PrevPathCache[key] = pathname

----------------------------------------------------------------------------
\* C7: the result of a script with a src settles at most once; when the
\* load event fires, the caller's onLoad and then onReady are called, each
\* once, before the result resolves to {status: true, event}, and onError is
\* not called.
C7_LoadSettlesOnce ==
    /\ [](\A i \in DOMAIN scripts :
            scripts[i].promise = "fulfilled" =>
                /\ scripts[i].calls =
                      Call("onLoad", scripts[i].onLoad)
                          \o Call("onReady", scripts[i].onReady) \o <<"resolve">>
                /\ scripts[i].value = [status |-> "true", event |-> "load"])
    /\ [][\A i \in DOMAIN scripts :
            /\ LoadEvent(i) => scripts'[i].promise = "fulfilled"
            /\ scripts[i].promise # "pending" =>
                  /\ scripts'[i].promise = scripts[i].promise
                  /\ scripts'[i].value = scripts[i].value
                  /\ scripts'[i].calls = scripts[i].calls]_vars

C7_Witness ==
    \E i \in DOMAIN scripts :
        /\ Truthy(scripts[i].src)
        /\ scripts[i].promise = "fulfilled"
        /\ scripts[i].calls = <<"onLoad", "onReady", "resolve">>

----------------------------------------------------------------------------
\* C8: when the error event fires, the result is rejected with
\* {status: false, event}, the caller's onError is called once, after the
\* rejection, onLoad and onReady are not called, and no element is created
\* for the key again except by a call that reloads (reload flag set, path
\* changed).
C8_ErrorRejects ==
    /\ [](\A i \in DOMAIN scripts :
            scripts[i].promise = "rejected" =>
                /\ scripts[i].calls = <<"reject">> \o Call("onError", scripts[i].onError)
                /\ scripts[i].value = [status |-> "false", event |-> "error"])
    /\ [][\A i \in DOMAIN scripts :
            /\ ErrorEvent(i) =>
                  scripts'[i].promise = "rejected" /\ Len(scripts') = Len(scripts)
            /\ ( /\ scripts[i].promise = "rejected"
                 /\ Creates
                 /\ scripts'[Len(scripts')].key = scripts[i].key )
                  => ReloadCall(scripts[i].key)]_vars

C8_Witness ==
    \E i \in DOMAIN scripts :
        /\ scripts[i].promise = "rejected"
        /\ scripts[i].calls = <<"reject", "onError">>
        /\ \E j \in DOMAIN scripts :
              j > i /\ scripts[j].key = scripts[i].key /\ scripts[j].reloaded

----------------------------------------------------------------------------
\* C9: every element created for a descriptor without a source URL has
\* no async and no defer attribute, also when the caller passed them, and
\* has data-load="inline".
C9_InlineAttributes ==
    \A i \in DOMAIN scripts :
        ~Truthy(scripts[i].src) =>
            /\ ~MapHas(scripts[i].attrs, "async")
            /\ ~MapHas(scripts[i].attrs, "defer")
            /\ MapHas(scripts[i].attrs, "data-load")
            /\ scripts[i].attrs["data-load"] = "inline"

C9_Witness ==
    \E i \in DOMAIN scripts :
        /\ ~Truthy(scripts[i].src)
        /\ scripts[i].key = "ab"
        /\ \A p \in Descriptors :
              KeyOf(p) = "ab" /\ ~Truthy(p.src) => p.async = "true" /\ p.defer = "true"
        /\ scripts[i].attrs = [id |-> "ab"] @@ ("data-load" :> "inline")

----------------------------------------------------------------------------
\* the reserved props
Blocklist == {InitialIgnoreProps[i] : i \in DOMAIN InitialIgnoreProps}

\* C10 as stated: a call that creates an element for a descriptor with a
\* source URL sets every prop with a defined value outside the blocklist on
\* the element, async and defer included, whatever calls came before.
C10_AttributesSpread ==
    [][\A p \in Descriptors :
          (loadScript(p) /\ Creates /\ Truthy(p.src)) =>
              \A k \in PropNames \ Blocklist :
                  p[k] # Undefined =>
                      MapHas(scripts'[Len(scripts')].attrs, AttrName(k))]_vars

----------------------------------------------------------------------------
\* the element the step creates
Created == scripts'[Len(scripts')]

\* C11: the first call for a key with a source URL creates an element
\* and returns its pending result, which stays pending until the element's
\* load or error event and resolves to {status: true, event: load} on the
\* load event; the call itself attaches nothing, it requests a frame; an
\* element becomes attached in a frame only, once, in the target of its
\* call, which is the body when the call gives none.
C11_FirstLoad ==
    [][/\ \A p \in Descriptors :
            (loadScript(p) /\ ~Repeated(p) /\ Truthy(p.src)) =>
                /\ Creates
                /\ Created.promise = "pending"
                /\ ret' = PromiseOf(Len(scripts'))
                /\ document' = document
                /\ rafQueue' = Append(rafQueue,
                        appendScript(IF p.target = Undefined THEN "body" ELSE p.target,
                                     Len(scripts')))
       /\ \A i \in DOMAIN scripts :
            /\ (scripts[i].promise = "pending" /\ scripts'[i].promise # "pending")
                  => (LoadEvent(i) \/ ErrorEvent(i))
            /\ LoadEvent(i) =>
                  scripts'[i].value = [status |-> "true", event |-> "load"]
            /\ \A t \in Targets :
                  (~IsChild(document, t, i) /\ IsChild(document', t, i)) =>
                      /\ Frame
                      /\ ~scripts[i].inserted
                      /\ \E j \in DOMAIN rafQueue :
                            rafQueue[j] = appendScript(t, i)]_vars

C11_Witness ==
    \E i \in DOMAIN scripts :
        /\ Truthy(scripts[i].src)
        /\ ~scripts[i].reloaded
        /\ scripts[i].value = [status |-> "true", event |-> "load"]
        /\ document = [head |-> <<>>, body |-> <<i>>]

----------------------------------------------------------------------------
\* C12: a call that creates an element for a descriptor without a
\* source URL returns the resolved result {status: true, event: "inline
\* script"} and adds no key to InstanceRegistry; every InstanceRegistry entry
\* is the element of a load of that key that had a source URL.
C12_InlineNotCached ==
    /\ [][\A p \in Descriptors :
            (loadScript(p) /\ Creates /\ ~Truthy(p.src)) =>
                /\ ret' = Resolved("true", "inline script")
                /\ DOMAIN ScriptCache' \subseteq DOMAIN ScriptCache
                /\ \A key \in DOMAIN ScriptCache' :
                      ScriptCache'[key] = ScriptCache[key]]_vars
    /\ [](\A key \in DOMAIN ScriptCache :
            /\ ScriptCache[key].script \in DOMAIN scripts
            /\ scripts[ScriptCache[key].script].key = key
            /\ Truthy(scripts[ScriptCache[key].script].src))

C12_Witness ==
    /\ ret = Resolved("true", "inline script")
    /\ Len(scripts) = 2
    /\ ~Truthy(scripts[2].src)
    /\ scripts[2].key = "ab"
    /\ DOMAIN ScriptCache = {"b"}

----------------------------------------------------------------------------
\* C13: every element created for a descriptor with a source URL has
\* data-load set to the load strategy of the call, afterHydration when the
\* call gives none; every element created with the inWorker strategy has
\* type="text/partytown", whatever type the caller passed.
C13_StrategyAttributes ==
    [][\A p \in Descriptors :
          (loadScript(p) /\ Creates) =>
              /\ Truthy(p.src) =>
                    /\ MapHas(Created.attrs, "data-load")
                    /\ Created.attrs["data-load"] =
                          (IF p.load = Undefined THEN "afterHydration" ELSE p.load)
              /\ p.load = "inWorker" =>
                    /\ MapHas(Created.attrs, "type")
                    /\ Created.attrs["type"] = "text/partytown"]_vars

C13_Witness ==
    /\ \E p \in Descriptors : p.load = "inWorker" /\ p.type = "module" /\ KeyOf(p) = "b"
    /\ \E i, j \in DOMAIN scripts :
          /\ scripts[i].key = "b"
          /\ scripts[i].attrs["type"] = "text/partytown"
          /\ scripts[i].attrs["data-load"] = "inWorker"
          /\ scripts[j].key = "ab"
          /\ Truthy(scripts[j].src)
          /\ scripts[j].attrs["data-load"] = "afterHydration"

----------------------------------------------------------------------------
\* C14: after every call, short-circuited or not, with or without the
\* reload flag, PathRegistry maps the key of the call to the path current at
\* the call and is otherwise unchanged; so a repeated call with the reload
\* flag is short-circuited exactly when the path equals the one the last
\* call with the key recorded, and a call for a key without a recorded path
\* loads for the first time: it removes nothing and its element is not a
\* reload.
C14_PathTracked ==
    [][\A p \in Descriptors :
          loadScript(p) =>
              /\ PrevPathCache' = MapSet(PrevPathCache, KeyOf(p), pathname)
              /\ (KeyOf(p) # "" /\ Repeated(p) /\ p.reload = "true") =>
                    /\ MapHas(PrevPathCache, KeyOf(p))
                    /\ (ret' = AlreadyLoaded) <=> (PrevPathCache[KeyOf(p)] = pathname)
              /\ ~MapHas(PrevPathCache, KeyOf(p)) =>
                    /\ Creates
                    /\ ~Created.reloaded
                    /\ rafQueue' = Append(rafQueue, rafQueue'[Len(rafQueue')])
                    /\ rafQueue'[Len(rafQueue')].op = "append"]_vars

C14_Witness ==
    /\ ret = AlreadyLoaded
    /\ \E key \in DOMAIN PrevPathCache :
          /\ PrevPathCache[key] = pathname
          /\ \E i \in DOMAIN scripts : scripts[i].key = key /\ scripts[i].reloaded

----------------------------------------------------------------------------
\* C15: a call that returns "already loaded" leaves LoadRegistry,
\* TimingRegistry, InstanceRegistry, the created elements, the document and
\* the requested frame callbacks as they were; of PathRegistry it changes
\* the entry of its own key only.
C15_ShortCircuitFrame ==
    [][\A p \in Descriptors :
          (loadScript(p) /\ ret' = AlreadyLoaded) =>
              /\ LoadCache' = LoadCache
              /\ StartTimeCache' = StartTimeCache
              /\ ScriptCache' = ScriptCache
              /\ scripts' = scripts
              /\ document' = document
              /\ rafQueue' = rafQueue
              /\ DOMAIN PrevPathCache' = DOMAIN PrevPathCache \cup {KeyOf(p)}
              /\ \A key \in DOMAIN PrevPathCache \ {KeyOf(p)} :
                    PrevPathCache'[key] = PrevPathCache[key]]_vars

C15_Witness ==
    /\ ret = AlreadyLoaded
    /\ rafQueue # <<>>
    /\ \E key \in DOMAIN ScriptCache :
          /\ PrevPathCache[key] = pathname
          /\ scripts[ScriptCache[key].script].promise = "pending"
    /\ \E key \in DOMAIN PrevPathCache : PrevPathCache[key] # pathname

----------------------------------------------------------------------------
\* C16: with the registries changed by loadScript only, no sequence of
\* calls, navigations, frames and load / error events makes a call return
\* {status: false, event: "Script load promise not found"}.
C16_PromiseFound ==
    ret # Resolved("false", "Script load promise not found")

C16_Witness ==
    \E key \in DOMAIN ScriptCache :
        LET i == ScriptCache[key].script
        IN /\ ret = PromiseOf(i)
           /\ scripts[i].reloaded
           /\ \E j \in DOMAIN scripts :
                 /\ j < i
                 /\ scripts[j].key = key
                 /\ Truthy(scripts[j].src)
                 /\ scripts[j].promise = "pending"

----------------------------------------------------------------------------
\* C17 as stated: the removal requested by a reloading call acts on the
\* location where the element is attached, or will be by the time the
\* removal runs, also when the reloading call names another target than the
\* call that created the element.
C17_RemovesWhereAttached ==
    \A j \in DOMAIN rafQueue :
        rafQueue[j].op = "remove" =>
            \/ IsChild(document, rafQueue[j].target, rafQueue[j].script)
            \/ \E k \in DOMAIN rafQueue :
                  k < j /\ rafQueue[k] = appendScript(rafQueue[j].target, rafQueue[j].script)

----------------------------------------------------------------------------
\* C18: every key of InstanceRegistry is in LoadRegistry, TimingRegistry
\* and PathRegistry as well, and its entry holds the element created for the
\* key together with the result of that element; the four registries change
\* in loadScript calls only.
C18_RegistriesConsistent ==
    /\ [](\A key \in DOMAIN ScriptCache :
            /\ key \in LoadCache
            /\ MapHas(StartTimeCache, key)
            /\ MapHas(PrevPathCache, key)
            /\ ScriptCache[key].script \in DOMAIN scripts
            /\ scripts[ScriptCache[key].script].key = key
            /\ ScriptCache[key].promise = ScriptCache[key].script)
    /\ [][<<LoadCache, StartTimeCache, PrevPathCache, ScriptCache>>'
              # <<LoadCache, StartTimeCache, PrevPathCache, ScriptCache>>
            => \E p \in Descriptors : loadScript(p)]_vars

C18_Witness ==
    /\ DOMAIN ScriptCache = {"ab", "b"}
    /\ LoadCache = {"ab", "b"}
    /\ scripts[ScriptCache["ab"].script].promise = "fulfilled"
    /\ scripts[ScriptCache["b"].script].promise = "pending"
    /\ StartTimeCache["b"] < StartTimeCache["ab"]

----------------------------------------------------------------------------
\* C19: descriptors with different (id, src) pairs are different script
\* instances: a call returns "already loaded" only if an element was created
\* for the very pair (id, src) of the call.
C19_DistinctPairs ==
    [][\A p \in Descriptors :
         loadScript(p) /\ ret' = AlreadyLoaded
           => \E i \in DOMAIN scripts :
                /\ MapGet(scripts[i].attrs, "id") = p.id
                /\ scripts[i].src = p.src]_vars

----------------------------------------------------------------------------
\* Vocabulary of the ScriptBeforeHydration properties

IsRendered == rendered # NotRendered

\* async, defer and data-load of the element are the fixed ones
ForcedAttributes ==
    /\ rendered["async"] = "false"
    /\ rendered["defer"] = "false"
    /\ rendered["data-load"] = "beforeHydration"

\* load, onReady and target are not passed to the element
NoIgnoredAttributes ==
    \A k \in {"load", "onReady", "target"} : rendered[k] = Undefined

\* the caller gave a script body: children, or a non-empty raw-HTML payload
HasBody ==
    \/ passedProps["children"] # Undefined
    \/ Truthy(passedProps["dangerouslySetInnerHTML"])

\* C20 as stated: with a string src the element has async=false, defer=false
\* and data-load="beforeHydration" whatever the caller passed, and load,
\* onReady and target are never passed to the element.
C20_Original ==
    IsRendered =>
        /\ IsString(passedProps["src"]) => ForcedAttributes
        /\ NoIgnoredAttributes

\* C20: with a non-empty string src, or an empty string src and no script
\* body, the element has async=false, defer=false and
\* data-load="beforeHydration" whatever the caller passed; on either path
\* data-load is "beforeHydration" and load, onReady and target are never
\* passed to the element.
C20_SrcForcesBlocking ==
    IsRendered =>
        /\ IsString(passedProps["src"]) /\ (passedProps["src"] # "" \/ ~HasBody)
             => ForcedAttributes
        /\ rendered["data-load"] = "beforeHydration"
        /\ NoIgnoredAttributes

C20_Witness ==
    /\ IsRendered
    /\ passedProps["src"] = "/s.js"
    /\ passedProps["async"] = "true"
    /\ passedProps["defer"] = "true"
    /\ passedProps["data-load"] = "onIdle"
    /\ passedProps["load"] = "beforeHydration"
    /\ passedProps["onReady"] = "fn"
    /\ passedProps["target"] = "head"
    /\ passedProps["children"] = "x=1"
    /\ rendered["src"] = "/s.js"
    /\ rendered["async"] = "false"

====
